---- MODULE Spec2Model ----
(***************************************************************************)
(* neuronunit simulator backends (neuronunit/models/backends.py): the      *)
(* Backend base class, jNeuroMLBackend and NEURONBackend, with the         *)
(* variable-step resampler of NEURONBackend.                               *)
(*                                                                         *)
(* Conventions of the model                                                *)
(*  - Python text is a tuple of one-character strings, so that suffix      *)
(*    stripping, substring tests and number parsing are computed.          *)
(*  - Times, potentials and step sizes are integers on a fixed grid; a     *)
(*    quotient is kept exact as a pair num/den.                            *)
(*  - Python lists are sequences read through a 0-based accessor that      *)
(*    reports IndexError.                                                  *)
(***************************************************************************)
EXTENDS Integers, Sequences, FiniteSets, TLC

(***************************************************************************)
(* Bounds of the model                                                     *)
(***************************************************************************)
MaxLen == 3
MaxTime == 4
MaxPot == 1
MaxStep == 2
MaxRuns == 3

(***************************************************************************)
(* Python values                                                           *)
(***************************************************************************)
\* Python's None, and an attribute that was never assigned, for numeric slots.
None == 0 - 1
Unset == 0 - 2

Max(a, b) == IF a >= b THEN a ELSE b

\* list[i] of Python: valid for -len <= i < len.
PyInRange(seq, i) == (0 - Len(seq)) <= i /\ i < Len(seq)
PyAt(seq, i) == IF i >= 0 THEN seq[i + 1] ELSE seq[Len(seq) + i + 1]

(***************************************************************************)
(* Text                                                                    *)
(***************************************************************************)
EndsWith(s, suf) ==
    /\ Len(s) >= Len(suf)
    /\ SubSeq(s, Len(s) - Len(suf) + 1, Len(s)) = suf

\* re.sub('\ ms$', '', s): remove the suffix when the text ends with it.
re_sub_suffix(suf, s) ==
    IF EndsWith(s, suf) THEN SubSeq(s, 1, Len(s) - Len(suf)) ELSE s

\* Python's  sub in s  on str.
Contains(sub, s) ==
    \E i \in 0..(Len(s) - Len(sub)) : SubSeq(s, i + 1, i + Len(sub)) = sub

UpperLetters ==
    << "A","B","C","D","E","F","G","H","I","J","K","L","M",
       "N","O","P","Q","R","S","T","U","V","W","X","Y","Z" >>
LowerLetters ==
    << "a","b","c","d","e","f","g","h","i","j","k","l","m",
       "n","o","p","q","r","s","t","u","v","w","x","y","z" >>
LowerChar(c) ==
    IF \E i \in 1..26 : UpperLetters[i] = c
    THEN LowerLetters[CHOOSE i \in 1..26 : UpperLetters[i] = c]
    ELSE c
Lower(s) == [i \in 1..Len(s) |-> LowerChar(s[i])]

DigitChars == << "0","1","2","3","4","5","6","7","8","9" >>
IsDigit(c) == \E d \in 1..10 : DigitChars[d] = c
DigitVal(c) == (CHOOSE d \in 1..10 : DigitChars[d] = c) - 1

RECURSIVE DigitsVal(_)
DigitsVal(s) ==
    IF Len(s) = 0 THEN 0
    ELSE 10 * DigitsVal(SubSeq(s, 1, Len(s) - 1)) + DigitVal(s[Len(s)])

RECURSIVE Pow10(_)
Pow10(n) == IF n = 0 THEN 1 ELSE 10 * Pow10(n - 1)

AllDigits(s) == \A i \in 1..Len(s) : IsDigit(s[i])

\* float(text) for decimal text  [-]digits[.digits] ; anything else is a
\* ValueError.  The value is num/den.
PyFloat(s) ==
    LET neg == Len(s) >= 1 /\ s[1] = "-"
        body == IF neg THEN SubSeq(s, 2, Len(s)) ELSE s
        dots == {i \in 1..Len(body) : body[i] = "."}
        ip == IF dots = {} THEN body
              ELSE SubSeq(body, 1, (CHOOSE i \in dots : TRUE) - 1)
        fp == IF dots = {} THEN << >>
              ELSE SubSeq(body, (CHOOSE i \in dots : TRUE) + 1, Len(body))
        ok == /\ Cardinality(dots) <= 1
              /\ AllDigits(ip) /\ AllDigits(fp)
              /\ Len(ip) + Len(fp) >= 1
        mag == DigitsVal(ip) * Pow10(Len(fp)) + DigitsVal(fp)
    IN IF ok
       THEN [ok |-> TRUE, num |-> IF neg THEN 0 - mag ELSE mag, den |-> Pow10(Len(fp))]
       ELSE [ok |-> FALSE, num |-> 0, den |-> 1]

(***************************************************************************)
(* Waveform resampler                                                      *)
(***************************************************************************)
\* linearInterpolate, adding the range to vEnd instead of vStart.
linearInterpolate_from_vEnd(tStart, tEnd, vStart, vEnd, tTarget) ==
    LET tRange == tEnd - tStart
        vRange == vEnd - vStart
    IN IF tRange = 0
       THEN [err |-> TRUE, num |-> 0, den |-> 1]
       ELSE [err |-> FALSE,
             num |-> vRange * (tTarget - tStart) + vEnd * tRange,
             den |-> tRange]

\* NEURONBackend.linearInterpolate: vRange*tFractionAlong + vStart, kept as
\* the exact quotient num/tRange; a zero tRange is Python's ZeroDivisionError.
linearInterpolate(tStart, tEnd, vStart, vEnd, tTarget) ==
    LET tRange == tEnd - tStart
        vRange == vEnd - vStart
    IN IF tRange = 0
       THEN [err |-> TRUE, num |-> 0, den |-> 1]
       ELSE [err |-> FALSE,
             num |-> vRange * (tTarget - tStart) + vStart * tRange,
             den |-> tRange]

\* The inner loop, advancing while fTime >= vTime instead of fTime > vTime.
RECURSIVE AdvanceV_while_not_before(_, _, _, _)
AdvanceV_while_not_before(vTimes, fTime, vTime, vIndex) ==
    IF fTime >= vTime /\ vIndex < Len(vTimes)
    THEN IF ~PyInRange(vTimes, vIndex + 1)
         THEN [err |-> TRUE, vIndex |-> vIndex + 1, vTime |-> vTime]
         ELSE AdvanceV_while_not_before(vTimes, fTime,
                                        PyAt(vTimes, vIndex + 1), vIndex + 1)
    ELSE [err |-> FALSE, vIndex |-> vIndex, vTime |-> vTime]

\* The inner loop: while fTime > vTime and vIndex < len(vTimes).
RECURSIVE AdvanceV(_, _, _, _)
AdvanceV(vTimes, fTime, vTime, vIndex) ==
    IF fTime > vTime /\ vIndex < Len(vTimes)
    THEN IF ~PyInRange(vTimes, vIndex + 1)
         THEN [err |-> TRUE, vIndex |-> vIndex + 1, vTime |-> vTime]
         ELSE AdvanceV(vTimes, fTime, PyAt(vTimes, vIndex + 1), vIndex + 1)
    ELSE [err |-> FALSE, vIndex |-> vIndex, vTime |-> vTime]

\* The outer loop: while fTime <= duration.  Each sample carries, beside the
\* value num/den appended to fPots, the cursor and the indices it was read
\* from (before = after for a sample copied without interpolation).
RECURSIVE ResampleLoop(_, _, _, _, _, _, _, _)
ResampleLoop(vTimes, vPots, fDt, duration, fTime, vTime, vIndex, fPots) ==
    IF ~(fTime <= duration)
    THEN [status |-> "ok", fPots |-> fPots]
    ELSE IF fTime = vTime
    THEN IF ~PyInRange(vPots, vIndex)
         THEN [status |-> "IndexError", fPots |-> << >>]
         ELSE ResampleLoop(vTimes, vPots, fDt, duration, fTime + fDt, vTime, vIndex,
                  Append(fPots, [num |-> PyAt(vPots, vIndex), den |-> 1,
                                 cursor |-> fTime,
                                 before |-> vIndex, after |-> vIndex]))
    ELSE LET a == AdvanceV(vTimes, fTime, vTime, vIndex)
             vIndexMinus1 == Max(0, a.vIndex - 1)
         IN IF a.err \/ ~PyInRange(vPots, a.vIndex)
            THEN [status |-> "IndexError", fPots |-> << >>]
            ELSE LET fPot == linearInterpolate(PyAt(vTimes, vIndexMinus1), a.vTime,
                                               PyAt(vPots, vIndexMinus1),
                                               PyAt(vPots, a.vIndex), fTime)
                 IN IF fPot.err
                    THEN [status |-> "ZeroDivisionError", fPots |-> << >>]
                    ELSE ResampleLoop(vTimes, vPots, fDt, duration, fTime + fDt,
                             a.vTime, a.vIndex,
                             Append(fPots, [num |-> fPot.num, den |-> fPot.den,
                                            cursor |-> fTime,
                                            before |-> vIndexMinus1,
                                            after |-> a.vIndex]))

\* NEURONBackend.get_variable_step_analog_signal on the recorded vectors.
get_variable_step_analog_signal(vTimes, vPots, fDt) ==
    IF ~PyInRange(vTimes, Len(vTimes) - 1)
    THEN [status |-> "IndexError", fPots |-> << >>]
    ELSE ResampleLoop(vTimes, vPots, fDt, PyAt(vTimes, Len(vTimes) - 1),
                      PyAt(vTimes, 0), PyAt(vTimes, 0), 0, << >>)

(***************************************************************************)
(* Values, dictionaries and the caller's objects                           *)
(***************************************************************************)
EmptyDict == [k \in {} |-> 0]

\* dict.update(kw): the keys of kw are set, the others are kept.
Update(d, kw) == kw @@ d

\* A quantity (magnitude with a unit), a bare number, or a str.
Quantity(text, unit) == [kind |-> "quantity", text |-> text, unit |-> unit]
Number(text) == [kind |-> "number", text |-> text, unit |-> << >>]
Str(text) == [kind |-> "str", text |-> text, unit |-> << >>]

\* str(value): a quantity prints as "<magnitude> <unit>".
PyStr(v) == IF v.kind = "quantity" THEN v.text \o << " " >> \o v.unit ELSE v.text

MS == << " ", "m", "s" >>
PA == << " ", "p", "A" >>
T_ms == << "m", "s" >>
T_pA == << "p", "A" >>
T_nA == << "n", "A" >>
T_m10 == << "-", "1", "0", ".", "0" >>
T_100f == << "1", "0", "0", ".", "0" >>
T_100 == << "1", "0", "0" >>
T_500f == << "5", "0", "0", ".", "0" >>

Amplitudes == {Quantity(T_m10, T_pA), Quantity(T_m10, T_nA), Number(T_m10)}
Delays == {Quantity(T_100f, T_ms), Number(T_100)}
Durations == {Quantity(T_500f, T_ms)}

Fields == {"amplitude", "delay", "duration"}

\* The objects the caller of inject_square_current holds: "current" is the
\* argument; when nested it has the one key injected_square_current, whose
\* value is the object "inner".
Descriptor(nested, a, dl, du) ==
    LET d == ("amplitude" :> a) @@ ("delay" :> dl) @@ ("duration" :> du)
    IN IF nested
       THEN ("current" :> ("injected_square_current" :> "inner")) @@ ("inner" :> d)
       ELSE ("current" :> d)

Descriptors ==
    {Descriptor(n, a, dl, du) : n \in BOOLEAN, a \in Amplitudes,
                                 dl \in Delays, du \in Durations}

\* The dict that carries the fields of the caller's descriptor.
FieldsOf(hp) ==
    IF "injected_square_current" \in DOMAIN hp["current"]
    THEN hp[hp["current"]["injected_square_current"]]
    ELSE hp["current"]

\* Keyword arguments of set_attrs and set_run_params.  A run parameter value
\* is a one-item dict {key: val} (what NEURONBackend.set_run_params unpacks),
\* a scalar, or a reference to a caller's object.
DictVal(k, v) == [isdict |-> TRUE, key |-> k, val |-> v]
Scalar(v) == [isdict |-> FALSE, key |-> "", val |-> v]
Ref(o) == [isdict |-> TRUE, key |-> o, val |-> 0]

AttrKw == {("a" :> 1), ("b" :> 2), ("a" :> 2)}
ParamKw ==
    {("vr" :> DictVal("vr", 1)), ("b" :> DictVal("b", 2)), ("vr" :> DictVal("vr", 2)),
     ("nogui" :> Scalar(1)) @@ ("v" :> Scalar(0))}

(***************************************************************************)
(* Model description: the ordered component list of the LEMS file          *)
(***************************************************************************)
T_pulseGenerator == << "p", "u", "l", "s", "e", "G", "e", "n", "e", "r", "a", "t", "o", "r" >>
T_Cell == << "C", "e", "l", "l" >>
T_pulseGeneratorDC == << "p", "u", "l", "s", "e", "G", "e", "n", "e", "r", "a", "t", "o", "r", "D", "C" >>
T_CellType == << "C", "e", "l", "l", "T", "y", "p", "e" >>
T_izhikevich2007Cell == << "i", "z", "h", "i", "k", "e", "v", "i", "c", "h", "2", "0", "0", "7", "C", "e", "l", "l" >>
T_pulsegenerator == << "p", "u", "l", "s", "e", "g", "e", "n", "e", "r", "a", "t", "o", "r" >>
T_cell == << "c", "e", "l", "l" >>
T_Display == << "D", "i", "s", "p", "l", "a", "y" >>

Component(id, type) == [id |-> id, type |-> type]

ComponentLists ==
    {<< Component("stim1", T_pulseGeneratorDC), Component("RS", T_CellType) >>,
     << Component("stim1", T_pulseGeneratorDC), Component("RS", T_izhikevich2007Cell),
        Component("stim2", T_pulseGenerator), Component("FS", T_Cell) >>,
     << Component("stim1", T_pulseGeneratorDC), Component("RS", T_CellType),
        Component("stim3", T_pulsegenerator), Component("net", T_cell) >>,
     << Component("RS", T_izhikevich2007Cell), Component("d1", T_Display),
        Component("stim1", T_pulseGeneratorDC) >>,
     << Component("d1", T_Display) >>}

\* resolve, stopping at the first component whose type has the pattern.
RECURSIVE resolve_first_match(_, _, _)
resolve_first_match(components, pattern, name) ==
    IF components = << >> THEN name
    ELSE IF Contains(pattern, Head(components).type) THEN Head(components).id
    ELSE resolve_first_match(Tail(components), pattern, name)

\* The loop of load_model over more_attributes.components: each component
\* whose type has the pattern overwrites the name found so far.
RECURSIVE resolve(_, _, _)
resolve(components, pattern, name) ==
    IF components = << >> THEN name
    ELSE resolve(Tail(components), pattern,
                 IF Contains(pattern, Head(components).type)
                 THEN Head(components).id ELSE name)

(***************************************************************************)
(* State of one backend instance, its engine and its caller                *)
(***************************************************************************)
VARIABLES
    backend,          \* the class of the instance: "Backend", "jNeuroML", "NEURON"
    attrs,            \* self.attrs
    run_params,       \* self.run_params (jNeuroMLBackend)
    params,           \* self.params (NEURONBackend)
    lems,             \* what was pushed into the LEMS file (jNeuroMLBackend)
    loaded,           \* load_model() has bound the engine handle
    components,       \* the component list read by the last load_model()
    current_src_name, \* self.current_src_name, "unset" until resolved
    cell_name,        \* self.cell_name, "unset" until resolved
    h_dt,             \* self.h.dt
    fixedTimeStep,    \* self.fixedTimeStep
    cvode_active,     \* self.h.cvode.active()
    h_stim,           \* fields written to explicitInput_<src><cell>_pop0
    h_cell,           \* fields written to m_<pop>_<pop>_pop[0]
    tVector,          \* recorded times (v_time)
    vVector,          \* recorded potentials (v_v_of0)
    results,          \* self.results
    heap,             \* the caller's descriptor objects, as they are now
    resampled,        \* result of the last get_variable_step_analog_signal
    cursor,           \* the fixed-step cursor of the resampler, in doubles
    lastCall,         \* the call that made this state, and how it ended
    \* history of the calls, for stating properties
    passed_attrs,     \* every key/value ever passed to set_attrs, later wins
    passed_params,    \* every key/value ever passed to set_run_params, later wins
    configuredStep,   \* step given to setTimeStep since the last load_model
    runs,             \* number of local_run() calls completed on the instance
    snapshot          \* the caller's descriptor objects before the last inject

config_vars == << attrs, run_params, params, lems, passed_attrs, passed_params >>
model_vars == << loaded, components, current_src_name, cell_name >>
step_vars == << h_dt, fixedTimeStep, cvode_active, configuredStep >>
run_vars == << tVector, vVector, results, runs >>
caller_vars == << heap, snapshot >>
vars == << backend, config_vars, model_vars, step_vars, run_vars, caller_vars,
           h_stim, h_cell, resampled, cursor, lastCall >>

\* NeuronSimulation(tstop=1600, dt=0.0025): the step of the loaded
\* simulation, one unit of the time grid.
NsDt == 1

Call(op, outcome, period) ==
    [op |-> op, outcome |-> outcome, period |-> period]

NoDescriptor == ("current" :> EmptyDict)
NotResampled == [status |-> "none", fPots |-> << >>]
NoCursor == [pc |-> "idle", t0 |-> << >>, duration |-> << >>, fDt |-> << >>,
             fTime |-> << >>, samples |-> 0]

\* Backend.__init__ / NEURONBackend.__init__
InitBackend ==
    /\ attrs = EmptyDict
    /\ run_params = EmptyDict
    /\ params = EmptyDict
    /\ lems = [attrs |-> EmptyDict, run_params |-> EmptyDict]
    /\ loaded = FALSE
    /\ components = << >>
    /\ current_src_name = "unset"
    /\ cell_name = "unset"
    /\ h_dt = NsDt
    /\ fixedTimeStep = Unset
    /\ cvode_active = 0
    /\ h_stim = EmptyDict
    /\ h_cell = EmptyDict
    /\ tVector = << >>
    /\ vVector = << >>
    /\ results = EmptyDict
    /\ heap = NoDescriptor
    /\ resampled = NotResampled
    /\ lastCall = Call("__init__", "ok", None)
    /\ passed_attrs = EmptyDict
    /\ passed_params = EmptyDict
    /\ configuredStep = Unset
    /\ runs = 0
    /\ snapshot = NoDescriptor

Init ==
    /\ backend \in {"Backend", "jNeuroML", "NEURON"}
    /\ InitBackend
    /\ cursor = NoCursor

(***************************************************************************)
(* set_attrs / set_run_params                                              *)
(***************************************************************************)
\* LEMSModel.set_lems_attrs(attrs): the given attributes reach the LEMS file.
set_lems_attrs(l, kw) == [l EXCEPT !.attrs = Update(@, kw)]
\* LEMSModel.set_lems_run_params(): the run parameters reach the LEMS file.
set_lems_run_params(l, rp) == [l EXCEPT !.run_params = rp]

\* Backend.set_attrs: pass.  NEURONBackend inherits it.
Backend_set_attrs ==
    /\ backend \in {"Backend", "NEURON"}
    /\ \E kw \in AttrKw :
         /\ passed_attrs' = Update(passed_attrs, kw)
         /\ lastCall' = Call("set_attrs", "ok", None)
    /\ UNCHANGED << backend, attrs, run_params, params, lems, passed_params,
                    model_vars, step_vars, run_vars, caller_vars,
                    h_stim, h_cell, resampled, cursor >>

\* Backend.set_run_params: pass.
Backend_set_run_params ==
    /\ backend = "Backend"
    /\ \E kw \in ParamKw :
         /\ passed_params' = Update(passed_params, kw)
         /\ lastCall' = Call("set_run_params", "ok", None)
    /\ UNCHANGED << backend, attrs, run_params, params, lems, passed_attrs,
                    model_vars, step_vars, run_vars, caller_vars,
                    h_stim, h_cell, resampled, cursor >>

jNeuroMLBackend_set_attrs ==
    /\ backend = "jNeuroML"
    /\ \E kw \in AttrKw :
         /\ attrs' = Update(attrs, kw)
         /\ lems' = set_lems_attrs(lems, kw)
         /\ passed_attrs' = Update(passed_attrs, kw)
         /\ lastCall' = Call("set_attrs", "ok", None)
    /\ UNCHANGED << backend, run_params, params, passed_params,
                    model_vars, step_vars, run_vars, caller_vars,
                    h_stim, h_cell, resampled, cursor >>

jNeuroMLBackend_set_run_params ==
    /\ backend = "jNeuroML"
    /\ \E kw \in ParamKw :
         /\ run_params' = Update(run_params, kw)
         /\ lems' = set_lems_run_params(lems, run_params')
         /\ passed_params' = Update(passed_params, kw)
         /\ lastCall' = Call("set_run_params", "ok", None)
    /\ UNCHANGED << backend, attrs, params, passed_attrs,
                    model_vars, step_vars, run_vars, caller_vars,
                    h_stim, h_cell, resampled, cursor >>

\* The h(...) assignments of NEURONBackend.set_run_params for one value
\* {h_key: h_value}: to m_RS_RS_pop[0] and to m_<cell>_<cell>_pop[0].
h_assign(hc, pop, value) == Update(hc, (<< pop, value.key >> :> value.val))

\* NEURONBackend.set_run_params.  Each keyword set here has values of one
\* sort: a scalar has no items() (AttributeError at the first value, after
\* params.update), and with cell_name unset the second h(...) of the first
\* value fails.  Otherwise the recording vectors are created anew.
NEURONBackend_set_run_params ==
    /\ backend = "NEURON"
    /\ \E kw \in ParamKw :
         /\ params' = Update(params, kw)
         /\ passed_params' = Update(passed_params, kw)
         /\ LET k == CHOOSE x \in DOMAIN kw : TRUE
            IN IF ~kw[k].isdict
               THEN /\ lastCall' = Call("set_run_params", "AttributeError", None)
                    /\ UNCHANGED << h_cell, tVector, vVector >>
               ELSE IF cell_name = "unset"
               THEN /\ h_cell' = h_assign(h_cell, "RS", kw[k])
                    /\ lastCall' = Call("set_run_params", "AttributeError", None)
                    /\ UNCHANGED << tVector, vVector >>
               ELSE /\ h_cell' = h_assign(h_assign(h_cell, "RS", kw[k]), cell_name, kw[k])
                    /\ tVector' = << >>
                    /\ vVector' = << >>
                    /\ lastCall' = Call("set_run_params", "ok", None)
    /\ UNCHANGED << backend, attrs, run_params, lems, passed_attrs,
                    model_vars, step_vars, results, runs, caller_vars,
                    h_stim, resampled, cursor >>

(***************************************************************************)
(* load_model and the step settings                                        *)
(***************************************************************************)
\* Backend.load_model: pass.  jNeuroMLBackend inherits it.
Backend_load_model ==
    /\ backend \in {"Backend", "jNeuroML"}
    /\ lastCall' = Call("load_model", "ok", None)
    /\ UNCHANGED << backend, config_vars, model_vars, step_vars, run_vars,
                    caller_vars, h_stim, h_cell, resampled, cursor >>

\* NEURONBackend.load_model: cond_load() binds the handle and builds the
\* NeuronSimulation; then the names are resolved from the component list.
NEURONBackend_load_model ==
    /\ backend = "NEURON"
    /\ \E cs \in ComponentLists :
         /\ components' = cs
         /\ current_src_name' = resolve(cs, T_pulseGenerator, current_src_name)
         /\ cell_name' = resolve(cs, T_Cell, cell_name)
    /\ loaded' = TRUE
    /\ h_dt' = NsDt
    /\ configuredStep' = Unset
    /\ lastCall' = Call("load_model", "ok", None)
    /\ UNCHANGED << backend, config_vars, fixedTimeStep, cvode_active, run_vars,
                    caller_vars, h_stim, h_cell, resampled, cursor >>

\* NEURONBackend.setTimeStep
NEURONBackend_setTimeStep ==
    /\ backend = "NEURON"
    /\ \E dt \in 1..MaxStep :
         /\ h_dt' = dt
         /\ fixedTimeStep' = dt
         /\ configuredStep' = dt
    /\ lastCall' = Call("setTimeStep", "ok", None)
    /\ UNCHANGED << backend, config_vars, model_vars, cvode_active, run_vars,
                    caller_vars, h_stim, h_cell, resampled, cursor >>

\* NEURONBackend.setIntegrationMethod
NEURONBackend_setIntegrationMethod ==
    /\ backend = "NEURON"
    /\ \E method \in {"fixed", "variable"} :
         cvode_active' = IF method = "variable" THEN 1 ELSE 0
    /\ lastCall' = Call("setIntegrationMethod", "ok", None)
    /\ UNCHANGED << backend, config_vars, model_vars, h_dt, fixedTimeStep,
                    configuredStep, run_vars, caller_vars, h_stim, h_cell,
                    resampled, cursor >>

(***************************************************************************)
(* local_run                                                               *)
(***************************************************************************)
\* What h('run()') records.  With fixed stepping the times are multiples of
\* h.dt (of any step when h.dt holds no number); with cvode they are
\* irregular.
EnginePots == {<< 0, 2, 1 >>}
EngineTraces(active, dt) ==
    IF active = 0
    THEN {[t |-> << 0, d, 2 * d >>, v |-> v] :
             d \in (IF dt > 0 THEN {dt} ELSE 1..MaxStep), v \in EnginePots}
    ELSE {[t |-> << 0, 1, 3 >>, v |-> v] : v \in EnginePots}

\* Lines 321-332 of NEURONBackend.local_run on the recorded vectors.
local_run_results(trace) ==
    LET r0 == EmptyDict
        r1 == Update(r0, ("vm" :> [i \in 1..Len(trace.v) |->
                                      [num |-> trace.v[i], den |-> 1000]]))
        r2 == Update(r1, ("t" :> trace.t))
    IN IF "run_number" \in DOMAIN r2
       THEN Update(r2, ("run_number" :> r2["run_number"] + 1))
       ELSE Update(r2, ("run_number" :> 1))

\* jNeuroMLBackend.local_run: runs the LEMS file with jNeuroML and returns
\* the result; reading run_params['nogui'] or ['v'] may be a KeyError.
jNeuroMLBackend_local_run ==
    /\ backend = "jNeuroML"
    /\ runs < MaxRuns
    /\ IF {"nogui", "v"} \subseteq DOMAIN run_params
       THEN /\ runs' = runs + 1
            /\ lastCall' = Call("local_run", "ok", None)
       ELSE /\ runs' = runs
            /\ lastCall' = Call("local_run", "KeyError", None)
    /\ UNCHANGED << backend, config_vars, model_vars, step_vars, tVector, vVector,
                    results, caller_vars, h_stim, h_cell, resampled, cursor >>

\* NEURONBackend.local_run.  Before load_model self.neuron is None and the
\* harvest fails after self.results = {}.
NEURONBackend_local_run ==
    /\ backend = "NEURON"
    /\ runs < MaxRuns
    /\ IF loaded
       THEN \E trace \in EngineTraces(cvode_active, h_dt) :
              /\ tVector' = trace.t
              /\ vVector' = trace.v
              /\ results' = local_run_results(trace)
              /\ runs' = runs + 1
              /\ lastCall' = Call("local_run", "ok", None)
       ELSE /\ results' = EmptyDict
            /\ lastCall' = Call("local_run", "AttributeError", None)
            /\ UNCHANGED << tVector, vVector, runs >>
    /\ UNCHANGED << backend, config_vars, model_vars, step_vars, caller_vars,
                    h_stim, h_cell, resampled, cursor >>

(***************************************************************************)
(* inject_square_current                                                   *)
(***************************************************************************)
\* jNeuroMLBackend.inject_square_current: set_run_params(injected_square_current=current)
jNeuroMLBackend_inject_square_current ==
    /\ backend = "jNeuroML"
    /\ \E d \in Descriptors :
         LET kw == ("injected_square_current" :> Ref("current"))
         IN /\ snapshot' = d
            /\ heap' = d
            /\ run_params' = Update(run_params, kw)
            /\ lems' = set_lems_run_params(lems, run_params')
            /\ passed_params' = Update(passed_params, kw)
            /\ lastCall' = Call("inject_square_current", "ok", None)
    /\ UNCHANGED << backend, attrs, params, passed_attrs, model_vars, step_vars,
                    run_vars, h_stim, h_cell, resampled, cursor >>

\* Lines 298-304 of NEURONBackend.inject_square_current on the objects hp:
\* c is a shallow copy of current, or the object under the key
\* injected_square_current; its three fields are then overwritten with text.
normalize(hp) ==
    LET h1 == ("c" :> hp["current"]) @@ hp
        c == IF "injected_square_current" \in DOMAIN h1["c"]
             THEN hp["current"]["injected_square_current"]
             ELSE "c"
        h2 == [h1 EXCEPT ![c]["delay"] = Str(re_sub_suffix(MS, PyStr(@)))]
        h3 == [h2 EXCEPT ![c]["duration"] = Str(re_sub_suffix(MS, PyStr(@)))]
        h4 == [h3 EXCEPT ![c]["amplitude"] = Str(re_sub_suffix(PA, PyStr(@)))]
    IN [objects |-> h4, c |-> c]

\* amps = float(c['amplitude'])/1000.0
amps(text) ==
    LET f == PyFloat(text)
    IN [ok |-> f.ok, num |-> f.num, den |-> f.den * 1000]

NEURONBackend_inject_square_current ==
    /\ backend = "NEURON"
    /\ runs < MaxRuns
    /\ \E d \in Descriptors :
         LET n == normalize(d)
             c == n.objects[n.c]
             a == amps(c["amplitude"].text)
         IN /\ snapshot' = d
            /\ heap' = [o \in DOMAIN d |-> n.objects[o]]
            /\ IF ~a.ok
               THEN /\ lastCall' = Call("inject_square_current", "ValueError", None)
                    /\ UNCHANGED << h_stim, run_vars >>
               ELSE IF current_src_name = "unset" \/ cell_name = "unset"
               THEN /\ lastCall' = Call("inject_square_current", "AttributeError", None)
                    /\ UNCHANGED << h_stim, run_vars >>
               ELSE /\ h_stim' = ("target" :> << current_src_name, cell_name >>)
                                 @@ ("amplitude" :> [num |-> a.num, den |-> a.den])
                                 @@ ("duration" :> c["duration"].text)
                                 @@ ("delay" :> c["delay"].text)
                    /\ \E trace \in EngineTraces(cvode_active, h_dt) :
                         /\ tVector' = trace.t
                         /\ vVector' = trace.v
                         /\ results' = local_run_results(trace)
                    /\ runs' = runs + 1
                    /\ lastCall' = Call("inject_square_current", "ok", None)
    /\ UNCHANGED << backend, config_vars, model_vars, step_vars, h_cell, resampled, cursor >>

(***************************************************************************)
(* get_membrane_potential                                                  *)
(***************************************************************************)
\* NEURONBackend.get_membrane_potential.  float() of the step fails when it
\* was never set or is None; the resampler may fail; and the engine either
\* refuses  self.h.dt = None  (TypeError) or stores it.
NEURONBackend_get_membrane_potential ==
    /\ backend = "NEURON"
    /\ \E hocStoresNone \in BOOLEAN :
         LET dt == IF cvode_active = 0 THEN h_dt ELSE fixedTimeStep
             r == IF cvode_active = 0 \/ dt <= 0
                  THEN resampled
                  ELSE get_variable_step_analog_signal(tVector, vVector, fixedTimeStep)
         IN /\ resampled' = r
            /\ IF dt = Unset
               THEN /\ lastCall' = Call("get_membrane_potential", "AttributeError", None)
                    /\ UNCHANGED << h_dt, fixedTimeStep >>
               ELSE IF dt = None
               THEN /\ lastCall' = Call("get_membrane_potential", "TypeError", None)
                    /\ UNCHANGED << h_dt, fixedTimeStep >>
               ELSE IF cvode_active # 0 /\ r.status # "ok"
               THEN /\ lastCall' = Call("get_membrane_potential", r.status, None)
                    /\ UNCHANGED << h_dt, fixedTimeStep >>
               ELSE IF ~hocStoresNone
               THEN /\ lastCall' = Call("get_membrane_potential", "TypeError_hoc", None)
                    /\ UNCHANGED << h_dt, fixedTimeStep >>
               ELSE /\ h_dt' = None
                    /\ fixedTimeStep' = None
                    /\ lastCall' = Call("get_membrane_potential", "ok", dt)
    /\ UNCHANGED << backend, config_vars, model_vars, cvode_active, configuredStep,
                    run_vars, caller_vars, h_stim, h_cell, cursor >>

(***************************************************************************)
(* The backend, driven by any sequence of calls                            *)
(***************************************************************************)
Next ==
    \/ Backend_set_attrs
    \/ Backend_set_run_params
    \/ jNeuroMLBackend_set_attrs
    \/ jNeuroMLBackend_set_run_params
    \/ NEURONBackend_set_run_params
    \/ Backend_load_model
    \/ NEURONBackend_load_model
    \/ NEURONBackend_setTimeStep
    \/ NEURONBackend_setIntegrationMethod
    \/ jNeuroMLBackend_local_run
    \/ NEURONBackend_local_run
    \/ jNeuroMLBackend_inject_square_current
    \/ NEURONBackend_inject_square_current
    \/ NEURONBackend_get_membrane_potential

Spec == Init /\ [][Next]_vars

(***************************************************************************)
(* Callers that use one part of the interface.  Each is the backend above  *)
(* driven by a caller that makes only the calls listed.                    *)
(***************************************************************************)
\* Configuration: load_model, set_attrs and set_run_params in any order.
NextConfig ==
    \/ Backend_set_attrs
    \/ Backend_set_run_params
    \/ jNeuroMLBackend_set_attrs
    \/ jNeuroMLBackend_set_run_params
    \/ NEURONBackend_set_run_params
    \/ Backend_load_model
    \/ NEURONBackend_load_model

SpecConfig == Init /\ [][NextConfig]_vars

\* Stimulation: load_model, then injections and runs in any order.
NextRun ==
    \/ Backend_load_model
    \/ NEURONBackend_load_model
    \/ jNeuroMLBackend_set_run_params
    \/ jNeuroMLBackend_local_run
    \/ NEURONBackend_local_run
    \/ jNeuroMLBackend_inject_square_current
    \/ NEURONBackend_inject_square_current

SpecRun == Init /\ [][NextRun]_vars

\* Reading: step settings, runs and reads of the membrane potential.
NextRead ==
    \/ NEURONBackend_load_model
    \/ NEURONBackend_setTimeStep
    \/ NEURONBackend_setIntegrationMethod
    \/ NEURONBackend_local_run
    \/ NEURONBackend_get_membrane_potential

SpecRead == Init /\ [][NextRead]_vars

(***************************************************************************)
(* The resampler alone, on any recorded vectors within the bounds          *)
(***************************************************************************)
RECURSIVE SeqsOfLen(_, _)
SeqsOfLen(S, n) ==
    IF n = 0 THEN {<< >>}
    ELSE {Append(q, x) : q \in SeqsOfLen(S, n - 1), x \in S}

InitResampler ==
    /\ backend = "NEURON"
    /\ \E n \in 0..MaxLen :
         /\ tVector \in SeqsOfLen(0..MaxTime, n)
         /\ vVector \in SeqsOfLen(0..MaxPot, n)
    /\ fixedTimeStep \in 1..MaxStep
    /\ cvode_active = 1
    /\ attrs = EmptyDict
    /\ run_params = EmptyDict
    /\ params = EmptyDict
    /\ lems = [attrs |-> EmptyDict, run_params |-> EmptyDict]
    /\ loaded = TRUE
    /\ components = << >>
    /\ current_src_name = "unset"
    /\ cell_name = "unset"
    /\ h_dt = fixedTimeStep
    /\ h_stim = EmptyDict
    /\ h_cell = EmptyDict
    /\ results = EmptyDict
    /\ heap = NoDescriptor
    /\ resampled = NotResampled
    /\ cursor = NoCursor
    /\ lastCall = Call("setTimeStep", "ok", None)
    /\ passed_attrs = EmptyDict
    /\ passed_params = EmptyDict
    /\ configuredStep = fixedTimeStep
    /\ runs = 0
    /\ snapshot = NoDescriptor

NEURONBackend_get_variable_step_analog_signal ==
    /\ resampled = NotResampled
    /\ resampled' = get_variable_step_analog_signal(tVector, vVector, fixedTimeStep)
    /\ lastCall' = Call("get_variable_step_analog_signal", resampled'.status, None)
    /\ UNCHANGED << backend, config_vars, model_vars, step_vars, run_vars,
                    caller_vars, h_stim, h_cell, cursor >>

NextResampler == NEURONBackend_get_variable_step_analog_signal

SpecResampler == InitResampler /\ [][NextResampler]_vars

(***************************************************************************)
(* The cursor of the resampler in double arithmetic                        *)
(*                                                                         *)
(* Python's float is the IEEE-754 double.  A non-negative double is kept   *)
(* as the natural number value * 2^Scale, written in binary with the least *)
(* significant bit first and no leading zero; zero is the empty sequence.  *)
(***************************************************************************)
Scale == 60
MantissaBits == 53

Zero == << >>

RECURSIVE Trim(_)
Trim(b) ==
    IF b = << >> THEN << >>
    ELSE IF b[Len(b)] = 1 THEN b
    ELSE Trim(SubSeq(b, 1, Len(b) - 1))

Bit(b, i) == IF i <= Len(b) THEN b[i] ELSE 0

ShiftLeft(b, k) == IF b = << >> THEN << >> ELSE [i \in 1..k |-> 0] \o b

RECURSIVE AddFrom(_, _, _, _)
AddFrom(a, b, i, carry) ==
    IF i > Max(Len(a), Len(b))
    THEN IF carry = 1 THEN << 1 >> ELSE << >>
    ELSE LET t == Bit(a, i) + Bit(b, i) + carry
         IN << t % 2 >> \o AddFrom(a, b, i + 1, t \div 2)

\* a + b, exactly.
BigAdd(a, b) == AddFrom(a, b, 1, 0)

RECURSIVE LeqFrom(_, _, _)
LeqFrom(a, b, i) ==
    IF i = 0 THEN TRUE
    ELSE IF a[i] # b[i] THEN a[i] < b[i]
    ELSE LeqFrom(a, b, i - 1)

\* a <= b, comparing from the most significant bit down.
BigLeq(a, b) ==
    IF Len(a) # Len(b) THEN Len(a) < Len(b) ELSE LeqFrom(a, b, Len(a))

\* Rounding to the nearest double, ties to the even mantissa.
Round(b) ==
    IF Len(b) <= MantissaBits THEN b
    ELSE LET r == Len(b) - MantissaBits
             keep == SubSeq(b, r + 1, Len(b))
             sticky == \E i \in 1..(r - 1) : b[i] = 1
             up == b[r] = 1 /\ (sticky \/ keep[1] = 1)
         IN ShiftLeft(IF up THEN BigAdd(keep, << 1 >>) ELSE keep, r)

\* a + b of Python floats.
FloatAdd(a, b) == Round(BigAdd(a, b))

HexBits(d) == << d % 2, (d \div 2) % 2, (d \div 4) % 2, (d \div 8) % 2 >>

RECURSIVE HexToBits(_)
HexToBits(h) ==
    IF h = << >> THEN << >>
    ELSE HexBits(h[Len(h)]) \o HexToBits(SubSeq(h, 1, Len(h) - 1))

\* The double with the mantissa of the given hexadecimal digits (most
\* significant first) times 2^exp, as float.hex() shows it.
Double(hex, exp) == ShiftLeft(Trim(HexToBits(hex)), exp + Scale)

M_10000000000000 == << 1, 0, 0, 0, 0, 0, 0, 0, 0, 0, 0, 0, 0, 0 >>
M_13333333333333 == << 1, 3, 3, 3, 3, 3, 3, 3, 3, 3, 3, 3, 3, 3 >>
M_1999999999999a == << 1, 9, 9, 9, 9, 9, 9, 9, 9, 9, 9, 9, 9, 10 >>
M_1b333333333333 == << 1, 11, 3, 3, 3, 3, 3, 3, 3, 3, 3, 3, 3, 3 >>

\* float.hex() of the literals: 0.3 is 0x1.3333333333333p-2, and so on.
F_0_125 == Double(M_10000000000000, 0 - 55)
F_0_25 == Double(M_10000000000000, 0 - 54)
F_0_3 == Double(M_13333333333333, 0 - 54)
F_0_5 == Double(M_10000000000000, 0 - 53)
F_0_8 == Double(M_1999999999999a, 0 - 53)
F_0_85 == Double(M_1b333333333333, 0 - 53)
F_1_0 == Double(M_10000000000000, 0 - 52)

FirstTimes == {Zero, F_0_25}
LastTimes == {F_0_5, F_0_8, F_0_85, F_1_0}
FixedSteps == {F_0_125, F_0_25, F_0_3}

\* The loop of get_variable_step_analog_signal seen from its cursor: on a
\* strictly increasing axis every pass of  while fTime <= duration  appends
\* one sample and ends with  fTime += fDt.
InitCursor ==
    /\ backend = "NEURON"
    /\ InitBackend
    /\ \E t0 \in FirstTimes, last \in LastTimes, step \in FixedSteps :
         cursor = [pc |-> "loop", t0 |-> t0, duration |-> last, fDt |-> step,
                   fTime |-> t0, samples |-> 0]

get_variable_step_analog_signal_pass ==
    /\ cursor.pc = "loop"
    /\ BigLeq(cursor.fTime, cursor.duration)
    /\ cursor' = [cursor EXCEPT !.samples = @ + 1,
                                !.fTime = FloatAdd(@, cursor.fDt)]
    /\ UNCHANGED << backend, config_vars, model_vars, step_vars, run_vars,
                    caller_vars, h_stim, h_cell, resampled, lastCall >>

get_variable_step_analog_signal_return ==
    /\ cursor.pc = "loop"
    /\ ~BigLeq(cursor.fTime, cursor.duration)
    /\ cursor' = [cursor EXCEPT !.pc = "done"]
    /\ UNCHANGED << backend, config_vars, model_vars, step_vars, run_vars,
                    caller_vars, h_stim, h_cell, resampled, lastCall >>

NextCursor ==
    \/ get_variable_step_analog_signal_pass
    \/ get_variable_step_analog_signal_return

SpecCursor == InitCursor /\ [][NextCursor]_vars

(***************************************************************************)
(* Properties                                                              *)
(***************************************************************************)
IsRun(call) == call.op \in {"local_run", "inject_square_current"}

\* C1: after the n-th completed local_run() on a NEURONBackend, made directly
\* or through inject_square_current, results['run_number'] equals n.
C1_RunNumberCountsRuns ==
    (backend = "NEURON" /\ IsRun(lastCall) /\ lastCall.outcome = "ok")
        => results["run_number"] = runs

\* The run-parameter mapping of the instance.
RunParameters == IF backend = "NEURON" THEN params ELSE run_params

\* C2: for each simulator backend (jNeuroMLBackend, NEURONBackend) and after
\* any sequence of set_attrs and set_run_params calls, the attribute mapping
\* and the run-parameter mapping equal the union of all key/value pairs ever
\* passed, the later value winning per key.  (The claim says the same of the
\* base class Backend, whose two methods are empty.)
C2_MappingsAreUnionOfPassed ==
    backend \in {"jNeuroML", "NEURON"}
        => /\ attrs = passed_attrs
           /\ RunParameters = passed_params

\* C3: when inject_square_current returns, amplitude, delay and duration of
\* the descriptor the caller passed hold the values they held before the
\* call, at the top level and nested under injected_square_current alike.
C3_DescriptorUnchanged ==
    (lastCall.op = "inject_square_current" /\ lastCall.outcome = "ok")
        => \A f \in Fields : FieldsOf(heap)[f] = FieldsOf(snapshot)[f]

\* C4: every inject_square_current call that returns has executed local_run
\* exactly once, on jNeuroMLBackend and on NEURONBackend, and on
\* NEURONBackend after the three stimulus fields were written.
C4_InjectRunsOnce ==
    [][(lastCall'.op = "inject_square_current" /\ lastCall'.outcome = "ok")
           => /\ runs' = runs + 1
              /\ (backend = "NEURON" => Fields \subseteq DOMAIN h_stim')]_vars

\* C5: after load_model(), a configured step and at least one run, every
\* get_membrane_potential call succeeds, with fixed and with variable
\* stepping, and returns the configured step as sampling period; also a
\* second read, and a read after a run that follows a read.  (A read that
\* ends because the engine refuses None for h.dt is left aside.)
C5_ReadSucceeds ==
    (/\ backend = "NEURON" /\ loaded /\ runs >= 1 /\ configuredStep # Unset
     /\ lastCall.op = "get_membrane_potential"
     /\ lastCall.outcome # "TypeError_hoc")
        => /\ lastCall.outcome = "ok"
           /\ lastCall.period = configuredStep

HasUnits(d) ==
    /\ EndsWith(PyStr(d["delay"]), MS)
    /\ EndsWith(PyStr(d["duration"]), MS)
    /\ EndsWith(PyStr(d["amplitude"]), PA)

\* C6: an inject_square_current on a NEURONBackend with resolved names, given
\* a delay or duration whose text lacks the " ms" suffix or an amplitude
\* whose text lacks " pA", ends in an error and writes nothing to the
\* stimulus component; given "-10.0 pA", "100.0 ms" and "500.0 ms" it writes
\* amplitude -0.01, delay "100.0" and duration "500.0".
C6_UnitFormatErrors ==
    [][(/\ lastCall'.op = "inject_square_current" /\ backend = "NEURON"
        /\ current_src_name # "unset" /\ cell_name # "unset")
           => IF HasUnits(FieldsOf(snapshot'))
              THEN /\ lastCall'.outcome = "ok"
                   /\ h_stim'["amplitude"].num * 100 = (0 - 1) * h_stim'["amplitude"].den
                   /\ h_stim'["delay"] = T_100f
                   /\ h_stim'["duration"] = T_500f
              ELSE /\ lastCall'.outcome # "ok"
                   /\ h_stim' = h_stim]_vars

StrictlyIncreasing(ts) == \A i \in 1..(Len(ts) - 1) : ts[i] < ts[i + 1]
NonDecreasing(vs) == \A i \in 1..(Len(vs) - 1) : vs[i] <= vs[i + 1]
Resampled == resampled.status # "none"

\* C7: the resampler returns no series when the time axis is empty or is
\* not strictly increasing.
C7_ResamplerFailsFast ==
    (Resampled /\ (tVector = << >> \/ ~StrictlyIncreasing(tVector)))
        => resampled.status # "ok"

\* Positions of the components whose type has the pattern, compared as
\* written and compared in lower case.
Matching(cs, pattern) == {i \in 1..Len(cs) : Contains(pattern, cs[i].type)}
MatchingAnyCase(cs, pattern) ==
    {i \in 1..Len(cs) : Contains(Lower(pattern), Lower(cs[i].type))}
Last(S) == CHOOSE m \in S : \A x \in S : x <= m

\* C8 as stated: after load_model(), the stimulus id is the id of the last
\* component whose type contains "pulseGenerator" and the cell id that of the
\* last whose type contains "Cell", both compared without regard to case.
C8_ResolvedIgnoringCase ==
    loaded =>
        /\ MatchingAnyCase(components, T_pulseGenerator) # {}
              => current_src_name =
                     components[Last(MatchingAnyCase(components, T_pulseGenerator))].id
        /\ MatchingAnyCase(components, T_Cell) # {}
              => cell_name = components[Last(MatchingAnyCase(components, T_Cell))].id

\* C8 amended: after load_model(), the stimulus id is the id of the last
\* component whose type contains "pulseGenerator" and the cell id that of the
\* last whose type contains "Cell", both compared with regard to case.
C8_ResolvedLastMatch ==
    loaded =>
        /\ Matching(components, T_pulseGenerator) # {}
              => current_src_name =
                     components[Last(Matching(components, T_pulseGenerator))].id
        /\ Matching(components, T_Cell) # {}
              => cell_name = components[Last(Matching(components, T_Cell))].id

\* A load of a list with two stimulus and two cell components.
C8_Witness ==
    /\ loaded
    /\ Cardinality(Matching(components, T_pulseGenerator)) >= 2
    /\ Cardinality(Matching(components, T_Cell)) >= 2
    /\ current_src_name = "stim2"
    /\ cell_name = "FS"

Span == tVector[Len(tVector)] - tVector[1]

\* The largest n with t + n * step <= last, in exact arithmetic: floor(D / F)
\* for D = last - t and F = step.
RECURSIVE StepsWithin(_, _, _)
StepsWithin(t, step, last) ==
    IF BigLeq(BigAdd(t, step), last)
    THEN 1 + StepsWithin(BigAdd(t, step), step, last)
    ELSE 0

\* C9: for a strictly increasing time axis spanning D (last time minus first
\* time) and a positive step F the resampler returns exactly floor(D/F) + 1
\* samples, also when the first time is not 0.
C9_SampleCount ==
    cursor.pc = "done"
        => cursor.samples
             = StepsWithin(cursor.t0, cursor.fDt, cursor.duration) + 1

\* Where every time and the step are whole multiples of one grid unit, so
\* that the cursor's additions are exact, the resampler returns
\* floor(D/F) + 1 samples and the first equals the first recorded value.
OnGrid_LengthAndFirstSample ==
    (Resampled /\ Len(tVector) >= 1 /\ StrictlyIncreasing(tVector))
        => /\ resampled.status = "ok"
           /\ Len(resampled.fPots) = (Span \div fixedTimeStep) + 1
           /\ resampled.fPots[1].num = vVector[1] * resampled.fPots[1].den

\* A resampled axis that starts after 0 and whose span is no multiple of
\* the step.
OnGrid_Witness ==
    /\ Resampled /\ resampled.status = "ok"
    /\ Len(tVector) >= 2 /\ StrictlyIncreasing(tVector)
    /\ tVector[1] > 0
    /\ Span % fixedTimeStep # 0
    /\ Len(resampled.fPots) >= 2

NativeTime(c) == \E i \in 1..Len(tVector) : tVector[i] = c

C11_ReadsInRangeNoZeroSpan ==
    (Resampled /\ Len(tVector) >= 1 /\ StrictlyIncreasing(tVector))
        => /\ resampled.status = "ok"
           /\ \A k \in 1..Len(resampled.fPots) :
                LET s == resampled.fPots[k]
                IN /\ s.before \in 0..(Len(tVector) - 1)
                   /\ s.after \in 0..(Len(tVector) - 1)
                   /\ s.before \in 0..(Len(vVector) - 1)
                   /\ s.after \in 0..(Len(vVector) - 1)
                   /\ s.before # s.after
                        => PyAt(tVector, s.before) # PyAt(tVector, s.after)
                   /\ s.before = s.after => s.cursor = PyAt(tVector, s.after)

\* A resampling whose advance loop stepped over a recorded time in one go
\* and whose last sample was interpolated up to the last index.
C11_Witness ==
    /\ Resampled /\ resampled.status = "ok"
    /\ Len(tVector) >= 3 /\ StrictlyIncreasing(tVector)
    /\ \E k \in 2..Len(resampled.fPots) :
         resampled.fPots[k].after >= resampled.fPots[k - 1].after + 2
    /\ LET s == resampled.fPots[Len(resampled.fPots)]
       IN s.after = Len(tVector) - 1 /\ s.before = s.after - 1

====
